---- MODULE Spec2Model ----
(***************************************************************************)
(* Model of solution_checker.py: one grading session                       *)
(* (check_task_multiple_files) with its two supervised worker threads      *)
(* (DockerBuildThread, DockerTestThread) and the container they share.     *)
(*                                                                         *)
(* Text is a sequence of one-character strings, bytes are a sequence of    *)
(* byte values, an optional value (Python None or a value) is a sequence   *)
(* of length 0 or 1.                                                       *)
(***************************************************************************)
EXTENDS Integers, Sequences, FiniteSets, TLC

\* ---------------------------------------------------------------- bounds
MaxTests == 2
MaxLen == 2

\* ------------------------------------------------------- status constants
STATUS_OK == 0
STATUS_CHECKING == 1
STATUS_BUILD_ERROR == 2
STATUS_RUNTIME_ERROR == 3
STATUS_CHECK_ERROR == 4
STATUS_RUNTIME_TIMEOUT == 6
STATUS_BUILD_TIMEOUT == 7
STATUS_LINT_ERROR == 8
STATUS_DRAFT == 9

\* ------------------------------------------------------------ value sets
None == <<>>
Some(x) == <<x>>

NL == "\n"
Chars == {"a", NL}
SeqsUpTo(S, n) == UNION {[1..k -> S] : k \in 0..n}
Str == SeqsUpTo(Chars, MaxLen)

\* bytes as produced by exec_run: 0x0A, 0x61 and the byte 0xFF, which no
\* UTF-8 text contains
Outputs == {<<>>, <<97, 10>>, <<255>>}
ExitCodes == {0, 1}

\* a Makefile as the sequence of its rule headers
Makefiles == {<<>>, <<"build:">>, <<"run:">>, <<"clean:", "run:">>,
              <<"build:", "run:">>}

\* test vectors (stdin, expected); the expected values are the empty text,
\* a text that ends with a newline and one that does not
Stdins == {<<"a">>}
Expecteds == SeqsUpTo(Chars, 1)
Vectors == {<<s, e>> : s \in Stdins, e \in Expecteds}
TestLists == SeqsUpTo(Vectors, MaxTests)

\* round(time.time() - start_time, 4): zero or positive
Elapsed == {0, 1}

\* --------------------------------------------------------- pure functions
Last(s) == s[Len(s)]
Front(s) == SubSeq(s, 1, Len(s) - 1)

\* bytes.decode(): defined on valid UTF-8 only
DecodeRaises(bs) == \E i \in 1..Len(bs) : bs[i] = 255
Decode(bs) == [i \in 1..Len(bs) |-> IF bs[i] = 10 THEN NL ELSE "a"]

\* str.find on the rule headers: position of the first match, -1 if none
Find(mk, t) ==
  IF \E i \in 1..Len(mk) : mk[i] = t
  THEN (CHOOSE i \in 1..Len(mk) : mk[i] = t /\ \A j \in 1..(i - 1) : mk[j] # t) - 1
  ELSE -1

\* variant: the wrong target is looked up
MissingRun_WrongTarget(mk) == Find(mk, "build:") = -1
MissingRun(mk) == Find(mk, "run:") = -1
\* variant: a build is always attempted
NeedToBuild_Always(mk) == TRUE
NeedToBuild(mk) == Find(mk, "build:") # -1

NewCheckResult ==
  [check_time |-> 0, build_time |-> 0, check_result |-> -1,
   check_message |-> <<>>, tests_passed |-> 0, tests_total |-> 0,
   lint_success |-> FALSE]

\* line 131: expected[-1] is evaluated only when the answer ends with a
\* newline, and raises IndexError on an empty expected value
CanonRaises(answer, expected) ==
  Len(answer) > 0 /\ Last(answer) = NL /\ expected = <<>>
Canon(answer, expected) ==
  IF Len(answer) > 0 /\ Last(answer) = NL /\ Last(expected) # NL
  THEN Front(answer) ELSE answer

\* line 93: the record the test thread starts from
\* variant: the record is created without its total
InitialTestResult_NoTotal(n) == NewCheckResult
InitialTestResult(n) == [NewCheckResult EXCEPT !.tests_total = n]

MismatchMsg(stdin, expected, answer) ==
  <<"For \"">> \o stdin \o <<"\" expected \"">> \o expected
    \o <<"\", but got \"">> \o answer \o <<"\"">>

\* the three failure records of DockerTestThread.run and its success record
\* variant: an exited container is classified like a failed run command
ExitedResult_AsRuntimeError(res, passed) ==
  [res EXCEPT !.check_result = STATUS_RUNTIME_ERROR, !.tests_passed = passed]
ExitedResult(res, passed) ==
  [res EXCEPT !.check_result = STATUS_CHECK_ERROR, !.tests_passed = passed]
RuntimeErrorResult(res, stdout) ==
  [res EXCEPT !.check_result = STATUS_RUNTIME_ERROR, !.check_message = stdout]
\* variant: the pass count is not recorded on a mismatch
MismatchResult_NoCount(res, msg, passed) ==
  [res EXCEPT !.check_result = STATUS_CHECK_ERROR, !.check_message = msg]
MismatchResult(res, msg, passed) ==
  [res EXCEPT !.check_result = STATUS_CHECK_ERROR, !.check_message = msg,
              !.tests_passed = passed]
OkResult(res, passed) ==
  [res EXCEPT !.check_result = STATUS_OK, !.tests_passed = passed]

\* check_solution's records
\* variant: an expired build budget is reported as a failed build
BuildTimeoutResult_AsError(bt, n) ==
  [NewCheckResult EXCEPT !.build_time = bt,
                         !.check_result = STATUS_BUILD_ERROR,
                         !.tests_total = n]
BuildTimeoutResult(bt, n) ==
  [NewCheckResult EXCEPT !.build_time = bt,
                         !.check_result = STATUS_BUILD_TIMEOUT,
                         !.tests_total = n]
BuildErrorResult(bt, msg, n) ==
  [NewCheckResult EXCEPT !.build_time = bt,
                         !.check_result = STATUS_BUILD_ERROR,
                         !.check_message = msg, !.tests_total = n]
\* lines 208-213
\* variant: the record made for a missing result gets no verdict
MergeTestResult_Unset(test_result, tt, bt) ==
  LET r == IF test_result = None THEN NewCheckResult ELSE test_result[1]
  IN [r EXCEPT !.check_time = tt, !.build_time = bt]
MergeTestResult(test_result, tt, bt) ==
  LET r == IF test_result = None
           THEN [NewCheckResult EXCEPT !.check_result = STATUS_RUNTIME_TIMEOUT]
           ELSE test_result[1]
  IN [r EXCEPT !.check_time = tt, !.build_time = bt]

\* line 257
\* variant: the linter is run whatever the verdict
LintApplies_Always(res) == TRUE
LintApplies(res) == res.check_result = STATUS_OK
\* lines 261-263
LintResult(res, str_lint) ==
  LET r == [res EXCEPT !.lint_success = (Len(str_lint) = 0)]
  IN IF ~r.lint_success
     THEN [r EXCEPT !.check_message = @ \o <<NL>> \o str_lint]
     ELSE r

\* ------------------------------------------------------------------ state
VARIABLES
  source_code,    \* optional Makefile of the submission
  tests,          \* the test vectors
  pc,             \* position of the session (main thread)
  need_to_build,
  container,      \* "none", "running", "exited", "removed"
  bpc,            \* build thread: "idle", "call", "exec", "done", "raised"
  bresult,        \* DockerBuildThread.result
  compile_result, \* build_solution's local
  build_time,
  tpc,            \* test thread: "idle", "loop", "exec", "status", "done", "raised"
  ti,             \* index of the vector the test thread is at
  tests_passed,   \* DockerTestThread.run's local counter
  tlocal,         \* DockerTestThread.run's local result
  tresult,        \* DockerTestThread.result
  execute_result, \* DockerTestThread.run's local
  test_time,
  result,         \* what the session returns
  calls,          \* collaborator calls made so far
  runs,           \* run commands started
  log,            \* per vector: what the environment answered, what the worker concluded
  bTimedOut,      \* the bounded join of the build thread expired
  tTimedOut,      \* the bounded join of the test thread expired
  preLint,        \* the record check_solution returned
  str_lint,       \* what the linter rendered
  readRunning     \* a worker's result was read while its thread was running

vars == <<source_code, tests, pc, need_to_build, container, bpc, bresult,
          compile_result, build_time, tpc, ti, tests_passed, tlocal, tresult,
          execute_result, test_time, result, calls, runs, log, bTimedOut,
          tTimedOut, preLint, str_lint, readRunning>>

sessionVars == <<source_code, tests, pc, need_to_build, compile_result,
                 build_time, test_time, result, bTimedOut, tTimedOut,
                 preLint, str_lint, readRunning>>
buildThreadVars == <<bpc, bresult>>
testThreadVars == <<tpc, ti, tests_passed, tlocal, tresult, execute_result,
                    runs, log>>

NoExec == [exit_code |-> 0, output |-> <<>>]

Init ==
  /\ source_code \in {None} \cup {Some(mk) : mk \in Makefiles}
  /\ tests \in TestLists
  /\ pc = "validate"
  /\ need_to_build = FALSE
  /\ container = "none"
  /\ bpc = "idle"
  /\ bresult = None
  /\ compile_result = None
  /\ build_time = 0
  /\ tpc = "idle"
  /\ ti = 0
  /\ tests_passed = 0
  /\ tlocal = NewCheckResult
  /\ tresult = None
  /\ execute_result = NoExec
  /\ test_time = 0
  /\ result = None
  /\ calls = {}
  /\ runs = 0
  /\ log = <<>>
  /\ bTimedOut = FALSE
  /\ tTimedOut = FALSE
  /\ preLint = None
  /\ str_lint = <<>>
  /\ readRunning = FALSE

\* what the linter renders (lint_errors_to_str): nothing, or some findings
LintStrs == {<<>>, <<"a">>}

\* Thread.join returns once the thread has ended, normally or by an exception
\* variant: only a thread that ran to its end counts
Ended_DoneOnly(threadPc) == threadPc = "done"
\* variant: the join does not wait for the thread
Ended_NoWait(threadPc) == TRUE
Ended(threadPc) == threadPc \in {"done", "raised"}

\* ------------------------------------------------------- the environment
\* the container exits on its own (memory ceiling, crash of its main process)
\* while a worker thread is using it
ContainerDies ==
  /\ container = "running"
  /\ bpc \in {"call", "exec"} \/ tpc \in {"loop", "exec", "status"}
  /\ container' = "exited"
  /\ UNCHANGED <<sessionVars, buildThreadVars, testThreadVars, calls>>

\* --------------------------------------------- check_task_multiple_files
\* lines 219-225
Validate ==
  /\ pc = "validate"
  /\ IF source_code = None
     THEN /\ result' = Some([NewCheckResult EXCEPT
                               !.check_result = STATUS_BUILD_ERROR,
                               !.check_message = <<"No Makefile found!">>])
          /\ pc' = "returned"
          /\ UNCHANGED need_to_build
     ELSE IF MissingRun(source_code[1])
     THEN /\ result' = Some([NewCheckResult EXCEPT
                               !.check_result = STATUS_BUILD_ERROR,
                               !.check_message = <<"Makefile must contain \"run:\"">>])
          /\ pc' = "returned"
          /\ UNCHANGED need_to_build
     ELSE /\ need_to_build' = NeedToBuild(source_code[1])
          /\ pc' = "provision"
          /\ UNCHANGED result
  /\ UNCHANGED <<source_code, tests, readRunning, compile_result, build_time, test_time,
                 bTimedOut, tTimedOut, preLint, str_lint, container,
                 buildThreadVars, testThreadVars, calls>>

\* lines 227-247: pack the archive, create the client, create the container
Provision ==
  /\ pc = "provision"
  /\ \E outcome \in {"ok", "tar_raises", "run_raises"} :
       CASE outcome = "tar_raises" ->
              /\ calls' = calls \cup {"files_to_tar"}
              /\ pc' = "raised"
              /\ UNCHANGED container
         [] outcome = "run_raises" ->
              /\ calls' = calls \cup {"files_to_tar", "from_env", "containers.run"}
              /\ pc' = "raised"
              /\ UNCHANGED container
         [] outcome = "ok" ->
              /\ calls' = calls \cup {"files_to_tar", "from_env", "containers.run"}
              /\ container' = "running"
              /\ pc' = "inject"
  /\ UNCHANGED <<source_code, tests, readRunning, need_to_build, compile_result, build_time,
                 test_time, result, bTimedOut, tTimedOut, preLint, str_lint,
                 buildThreadVars, testThreadVars>>

\* lines 249-253
Inject ==
  /\ pc = "inject"
  /\ \/ /\ calls' = calls \cup {"put_archive"}
        /\ pc' = "check_solution"
        /\ UNCHANGED container
     \/ /\ calls' = calls \cup {"put_archive", "remove_container"}
        /\ container' = "removed"
        /\ pc' = "raised"
  /\ UNCHANGED <<source_code, tests, readRunning, need_to_build, compile_result, build_time,
                 test_time, result, bTimedOut, tTimedOut, preLint, str_lint,
                 buildThreadVars, testThreadVars>>

\* ------------------------------------------- check_solution, build phase
\* lines 186-188, 155-157: build_thread.start() when a build is needed
CheckSolution ==
  /\ pc = "check_solution"
  /\ IF need_to_build
     THEN /\ bpc' = "call"
          /\ calls' = calls \cup {"build_thread.start"}
          /\ pc' = "build_join"
     ELSE /\ pc' = "test_start"
          /\ UNCHANGED <<bpc, calls>>
  /\ UNCHANGED <<source_code, tests, readRunning, need_to_build, compile_result, build_time,
                 test_time, result, bTimedOut, tTimedOut, preLint, str_lint,
                 container, bresult, testThreadVars>>

\* DockerBuildThread.run, line 72: exec_run is entered; a container that is
\* no longer running makes the call raise or return an error at once
BuildRunCall ==
  /\ bpc = "call"
  /\ calls' = calls \cup {"make build"}
  /\ \/ bpc' = "exec"
     \/ container # "running" /\ bpc' = "raised"
  /\ UNCHANGED <<sessionVars, container, bresult, testThreadVars>>

\* lines 72-73: exec_run returns and the thread ends
BuildRunReturn ==
  /\ bpc = "exec"
  /\ \E ec \in ExitCodes, out \in Outputs :
       bresult' = Some([exit_code |-> ec, output |-> out])
  /\ bpc' = "done"
  /\ UNCHANGED <<sessionVars, container, testThreadVars, calls>>

\* lines 158-162: the bounded join returns, because the thread has ended
\* or because the budget has expired, and the result is read
BuildJoin ==
  /\ pc = "build_join"
  /\ bTimedOut' = ~Ended(bpc)
  /\ \E bt \in Elapsed : build_time' = bt
  /\ compile_result' = bresult
  /\ pc' = IF bresult = None THEN "build_terminate" ELSE "build_done"
  /\ readRunning' = (readRunning \/ ~Ended(bpc))
  /\ UNCHANGED <<source_code, tests, need_to_build, test_time, result,
                 tTimedOut, preLint, str_lint, container, buildThreadVars,
                 testThreadVars, calls>>

\* line 163, lines 75-76: container.kill() raises on a container that is
\* not running
BuildTerminate ==
  /\ pc = "build_terminate"
  /\ calls' = calls \cup {"kill"}
  /\ IF container = "running"
     THEN container' = "exited" /\ pc' = "build_join2"
     ELSE pc' = "raised" /\ UNCHANGED container
  /\ UNCHANGED <<source_code, tests, readRunning, need_to_build, compile_result, build_time,
                 test_time, result, bTimedOut, tTimedOut, preLint, str_lint,
                 buildThreadVars, testThreadVars>>

\* line 165: the unbounded join
BuildJoin2 ==
  /\ pc = "build_join2"
  /\ Ended(bpc)
  /\ pc' = "build_done"
  /\ UNCHANGED <<source_code, tests, readRunning, need_to_build, compile_result, build_time,
                 test_time, result, bTimedOut, tTimedOut, preLint, str_lint,
                 container, buildThreadVars, testThreadVars, calls>>

\* lines 190-204: what the build phase makes of compile_result
BuildDone ==
  /\ pc = "build_done"
  /\ IF compile_result = None
     THEN /\ result' = Some(BuildTimeoutResult(build_time, Len(tests)))
          /\ pc' = "lint"
     ELSE IF compile_result[1].exit_code # 0
     THEN IF DecodeRaises(compile_result[1].output)
          THEN pc' = "raised" /\ UNCHANGED result
          ELSE /\ result' = Some(BuildErrorResult(build_time,
                                   Decode(compile_result[1].output), Len(tests)))
               /\ pc' = "lint"
     ELSE pc' = "test_start" /\ UNCHANGED result
  /\ UNCHANGED <<source_code, tests, readRunning, need_to_build, compile_result, build_time,
                 test_time, bTimedOut, tTimedOut, preLint, str_lint,
                 container, buildThreadVars, testThreadVars, calls>>

\* -------------------------------------------- check_solution, test phase
\* lines 171-173 and 91-93: test_thread.start(); the thread sets up its
\* counter and its result record
TestStart ==
  /\ pc = "test_start"
  /\ calls' = calls \cup {"test_thread.start"}
  /\ tpc' = "loop"
  /\ ti' = 1
  /\ tests_passed' = 0
  /\ tlocal' = InitialTestResult(Len(tests))
  /\ pc' = "test_join"
  /\ UNCHANGED <<source_code, tests, readRunning, need_to_build, compile_result, build_time,
                 test_time, result, bTimedOut, tTimedOut, preLint, str_lint,
                 container, buildThreadVars, tresult, execute_result, runs, log>>

LogEntry(status, ec, answer, outcome) ==
  [status |-> status, exit_code |-> ec, answer |-> answer, outcome |-> outcome]

\* lines 95-111 and 145-147: the head of the loop. After the last vector the
\* thread publishes the OK record; otherwise it writes the input file and
\* enters exec_run, which raises or returns an error at once on a container
\* that is no longer running
TestLoop ==
  /\ tpc = "loop"
  /\ IF ti > Len(tests)
     THEN /\ tlocal' = OkResult(tlocal, tests_passed)
          /\ tresult' = Some(tlocal')
          /\ tpc' = "done"
          /\ UNCHANGED <<calls, runs>>
     ELSE /\ calls' = calls \cup {"create_file", "make run"}
          /\ runs' = runs + 1
          /\ \/ tpc' = "exec"
             \/ container # "running" /\ tpc' = "raised"
          /\ UNCHANGED <<tlocal, tresult>>
  /\ UNCHANGED <<sessionVars, container, buildThreadVars, ti, tests_passed,
                 execute_result, log>>

\* lines 107-111: exec_run returns
TestRunReturn ==
  /\ tpc = "exec"
  /\ \E ec \in ExitCodes, out \in Outputs :
       execute_result' = [exit_code |-> ec, output |-> out]
  /\ tpc' = "status"
  /\ UNCHANGED <<sessionVars, container, buildThreadVars, ti, tests_passed,
                 tlocal, tresult, runs, log, calls>>

\* lines 113-143: the container is re-queried and the vector is classified
TestClassify ==
  /\ tpc = "status"
  /\ LET ec == execute_result.exit_code
         out == execute_result.output
         expected == tests[ti][2]
     IN
     IF container = "exited"
     THEN /\ tlocal' = ExitedResult(tlocal, tests_passed)
          /\ tresult' = Some(tlocal')
          /\ tpc' = "done"
          /\ log' = Append(log, LogEntry("exited", ec, None, "exited"))
          /\ UNCHANGED <<ti, tests_passed, calls>>
     ELSE IF DecodeRaises(out)
     THEN /\ tpc' = "raised"
          /\ log' = Append(log, LogEntry("running", ec, None, "raised"))
          /\ UNCHANGED <<ti, tests_passed, tlocal, tresult, calls>>
     ELSE IF ec # 0
     THEN /\ tlocal' = RuntimeErrorResult(tlocal, Decode(out))
          /\ tresult' = Some(tlocal')
          /\ tpc' = "done"
          /\ log' = Append(log, LogEntry("running", ec, None, "runtime_error"))
          /\ UNCHANGED <<ti, tests_passed, calls>>
     ELSE \E fout \in {None} \cup {Some(t) : t \in Str} :
          LET answer == IF fout # None THEN fout[1] ELSE Decode(out)
          IN
          /\ calls' = calls \cup {"get_file_from_container"}
          /\ IF CanonRaises(answer, expected)
             THEN /\ tpc' = "raised"
                  /\ log' = Append(log, LogEntry("running", ec, Some(answer), "raised"))
                  /\ UNCHANGED <<ti, tests_passed, tlocal, tresult>>
             ELSE IF Canon(answer, expected) # expected
             THEN /\ tlocal' = MismatchResult(tlocal,
                                 MismatchMsg(tests[ti][1], expected,
                                             Canon(answer, expected)),
                                 tests_passed)
                  /\ tresult' = Some(tlocal')
                  /\ tpc' = "done"
                  /\ log' = Append(log, LogEntry("running", ec, Some(answer), "mismatch"))
                  /\ UNCHANGED <<ti, tests_passed>>
             ELSE /\ tests_passed' = tests_passed + 1
                  /\ ti' = ti + 1
                  /\ tpc' = "loop"
                  /\ log' = Append(log, LogEntry("running", ec, Some(answer), "pass"))
                  /\ UNCHANGED <<tlocal, tresult>>
  /\ UNCHANGED <<sessionVars, container, buildThreadVars, execute_result, runs>>

\* lines 174-177: the bounded join returns, because the thread has ended or
\* because the budget (RUNTIME_TIMEOUT * len(tests)) has expired, and the
\* result is looked at
TestJoin ==
  /\ pc = "test_join"
  /\ tTimedOut' = ~Ended(tpc)
  /\ \E tt \in Elapsed : test_time' = tt
  /\ pc' = IF tresult = None THEN "test_terminate" ELSE "test_done"
  /\ readRunning' = (readRunning \/ ~Ended(tpc))
  /\ UNCHANGED <<source_code, tests, need_to_build, compile_result, build_time,
                 result, bTimedOut, preLint, str_lint, container,
                 buildThreadVars, testThreadVars, calls>>

\* line 178, lines 149-151: the container is re-queried, then killed;
\* container.kill() raises on a container that is not running
TestTerminate ==
  /\ pc = "test_terminate"
  /\ calls' = calls \cup {"kill"}
  /\ IF container = "running"
     THEN container' = "exited" /\ pc' = "test_join2"
     ELSE pc' = "raised" /\ UNCHANGED container
  /\ UNCHANGED <<source_code, tests, readRunning, need_to_build, compile_result, build_time,
                 test_time, result, bTimedOut, tTimedOut, preLint, str_lint,
                 buildThreadVars, testThreadVars>>

\* line 180: the unbounded join
TestJoin2 ==
  /\ pc = "test_join2"
  /\ Ended(tpc)
  /\ pc' = "test_done"
  /\ UNCHANGED <<source_code, tests, readRunning, need_to_build, compile_result, build_time,
                 test_time, result, bTimedOut, tTimedOut, preLint, str_lint,
                 container, buildThreadVars, testThreadVars, calls>>

\* line 182 and lines 206-215: test_thread.result is read again and merged
TestDone ==
  /\ pc = "test_done"
  /\ result' = Some(MergeTestResult(tresult, test_time, build_time))
  /\ pc' = "lint"
  /\ readRunning' = (readRunning \/ ~Ended(tpc))
  /\ UNCHANGED <<source_code, tests, need_to_build, compile_result, build_time,
                 test_time, bTimedOut, tTimedOut, preLint, str_lint,
                 container, buildThreadVars, testThreadVars, calls>>

\* -------------------------------------------------- lint and teardown
\* lines 255-263
Lint ==
  /\ pc = "lint"
  /\ preLint' = result
  /\ IF LintApplies(result[1])
     THEN \E s \in LintStrs :
            /\ str_lint' = s
            /\ result' = Some(LintResult(result[1], s))
            /\ calls' = calls \cup {"lint_dict"}
     ELSE UNCHANGED <<str_lint, result, calls>>
  /\ pc' = "teardown"
  /\ UNCHANGED <<source_code, tests, readRunning, need_to_build, compile_result, build_time,
                 test_time, bTimedOut, tTimedOut, container, buildThreadVars,
                 testThreadVars>>

\* lines 265-268
Teardown ==
  /\ pc = "teardown"
  /\ calls' = calls \cup {"rmtree", "remove_container"}
  /\ container' = "removed"
  /\ pc' = "returned"
  /\ UNCHANGED <<source_code, tests, readRunning, need_to_build, compile_result, build_time,
                 test_time, result, bTimedOut, tTimedOut, preLint, str_lint,
                 buildThreadVars, testThreadVars>>

Next ==
  \/ Validate
  \/ Provision
  \/ Inject
  \/ CheckSolution
  \/ BuildRunCall
  \/ BuildRunReturn
  \/ BuildJoin
  \/ BuildTerminate
  \/ BuildJoin2
  \/ BuildDone
  \/ TestStart
  \/ TestLoop
  \/ TestRunReturn
  \/ TestClassify
  \/ TestJoin
  \/ TestTerminate
  \/ TestJoin2
  \/ TestDone
  \/ Lint
  \/ Teardown
  \/ ContainerDies

Spec == Init /\ [][Next]_vars

\* Scheduling: the session thread and a runnable worker thread keep taking
\* steps, and a bounded join returns at the latest when its budget expires.
\* A command inside a running container may take forever; exec_run returns
\* once the container is no longer running.
SessionStep ==
  \/ Validate \/ Provision \/ Inject \/ CheckSolution
  \/ BuildJoin \/ BuildTerminate \/ BuildJoin2 \/ BuildDone
  \/ TestStart \/ TestJoin \/ TestTerminate \/ TestJoin2 \/ TestDone
  \/ Lint \/ Teardown

Fairness ==
  /\ WF_vars(SessionStep)
  /\ WF_vars(BuildRunCall)
  /\ WF_vars(TestLoop)
  /\ WF_vars(TestClassify)
  /\ WF_vars(container # "running" /\ BuildRunReturn)
  /\ WF_vars(container # "running" /\ TestRunReturn)

FairSpec == Spec /\ Fairness

\* ================================================================ claims
Returned == pc = "returned"
\* the session got past provisioning and check_solution returned a record
Graded == Returned /\ preLint # None
Verdict == result[1].check_result

\* the canonicalization rule as stated: one trailing newline is dropped from
\* the answer when the expected value does not end with one
EndsWithNL(s) == Len(s) > 0 /\ Last(s) = NL
StatedCanon(answer, expected) ==
  IF EndsWithNL(answer) /\ ~EndsWithNL(expected) THEN Front(answer) ELSE answer

\* what the environment did for vector i
RanLive(i) == log[i].status = "running"
ExitedZero(i) == log[i].exit_code = 0
Answered(i) == log[i].answer # None
Matches(i) ==
  /\ RanLive(i) /\ ExitedZero(i) /\ Answered(i)
  /\ StatedCanon(log[i].answer[1], tests[i][2]) = tests[i][2]
Differs(i) ==
  /\ RanLive(i) /\ ExitedZero(i) /\ Answered(i)
  /\ StatedCanon(log[i].answer[1], tests[i][2]) # tests[i][2]

\* C1: fail-fast count. Once the test runner has produced its record: if some
\* vector failed (environment found exited, non-zero exit code, or output
\* mismatch), no run command was started after the first failing vector and
\* tests_passed is the number of vectors before it; if none failed,
\* tests_passed is the number of vectors.
C1_FailFastCount ==
  tpc = "done" =>
    LET failed == {i \in 1..Len(log) :
                     log[i].outcome \in {"exited", "runtime_error", "mismatch"}}
    IN IF failed = {}
       THEN tresult[1].tests_passed = Len(tests)
       ELSE LET f == CHOOSE i \in failed : \A j \in failed : i <= j
            IN runs = f /\ Len(log) = f /\ tresult[1].tests_passed = f - 1

\* C2: a session whose test worker ran to completion within the budget, in a
\* live environment, with every run command exiting zero, and whose vector k
\* is the first with a canonicalized answer different from the expected
\* output, returns CHECK_ERROR with tests_passed = k - 1.
C2_FirstMismatch ==
  \A k \in 1..Len(log) :
    ( /\ Graded
      /\ tpc = "done" /\ ~tTimedOut
      /\ \A i \in 1..Len(log) : RanLive(i) /\ ExitedZero(i)
      /\ \A i \in 1..(k - 1) : Matches(i)
      /\ Differs(k) )
    => Verdict = STATUS_CHECK_ERROR /\ result[1].tests_passed = k - 1

\* C2 witness: a session returned after its second vector was the first
\* mismatch, the worker having finished within the budget
C2_Witness ==
  /\ Graded /\ tpc = "done" /\ ~tTimedOut
  /\ Len(log) = 2 /\ Matches(1) /\ Differs(2)

\* C3: when the bounded wait for the test worker expired before the worker
\* produced a result, the session returns RUNTIME_TIMEOUT with tests_passed 0.
C3_TimeoutVerdict ==
  (Graded /\ tTimedOut) =>
    Verdict = STATUS_RUNTIME_TIMEOUT /\ result[1].tests_passed = 0

C5_TeardownAlways ==
  pc \in {"returned", "raised"} => container \in {"none", "removed"}

C8_Lint ==
  /\ (pc \in {"teardown", "returned"} /\ preLint # None) =>
       /\ ("lint_dict" \in calls) <=> (preLint[1].check_result = STATUS_OK)
       /\ Verdict = preLint[1].check_result
       /\ result[1].lint_success <=> (Verdict = STATUS_OK /\ str_lint = <<>>)
       /\ result[1].check_message # preLint[1].check_message =>
            "lint_dict" \in calls /\ str_lint # <<>>
       /\ str_lint # <<>> =>
            result[1].check_message = preLint[1].check_message \o <<NL>> \o str_lint
  /\ Returned => (result[1].lint_success => Verdict = STATUS_OK)

\* C8 witness: a session returned with OK after the linter rendered findings
C8_Witness ==
  Graded /\ Verdict = STATUS_OK /\ str_lint # <<>> /\ "lint_dict" \in calls

\* C9: newline-stripping law. A vector whose expected output does not end
\* with a newline and whose answer ends with exactly one newline is passed
\* exactly if the answer without that newline equals the expected output, and
\* is otherwise a mismatch; the comparison has no other outcome.
C9_NewlineLaw ==
  \A i \in 1..Len(log) :
    ( /\ RanLive(i) /\ ExitedZero(i) /\ Answered(i)
      /\ ~EndsWithNL(tests[i][2])
      /\ EndsWithNL(log[i].answer[1])
      /\ ~EndsWithNL(Front(log[i].answer[1])) )
    => /\ log[i].outcome \in {"pass", "mismatch"}
       /\ log[i].outcome = "pass" <=> Front(log[i].answer[1]) = tests[i][2]

\* C10: a graded session returns OK exactly if the test worker was started,
\* executed every vector, and each vector ran in a live environment, exited
\* zero and matched its expected output; an OK record has
\* tests_passed = tests_total = number of vectors.
C10_OkIffAllMatched ==
  Graded =>
    /\ (Verdict = STATUS_OK) <=>
         /\ "test_thread.start" \in calls
         /\ Len(log) = Len(tests)
         /\ \A i \in 1..Len(log) : Matches(i)
    /\ Verdict = STATUS_OK =>
         /\ result[1].tests_passed = Len(tests)
         /\ result[1].tests_total = Len(tests)

\* C11: in every state, the test worker's accumulator, the record it has
\* published and the record of the session each have
\* tests_passed <= tests_total.
C11_PassedWithinTotal ==
  /\ tlocal.tests_passed <= tlocal.tests_total
  /\ tresult # None => tresult[1].tests_passed <= tresult[1].tests_total
  /\ result # None => result[1].tests_passed <= result[1].tests_total

\* C11 witness: a returned record that counts at least one passed vector
C11_Witness == Graded /\ result[1].tests_passed >= 1

\* C12: the verdict of every returned record is one of OK, BUILD_ERROR,
\* BUILD_TIMEOUT, RUNTIME_ERROR, RUNTIME_TIMEOUT, CHECK_ERROR.
C12_VerdictTaxonomy ==
  Returned =>
    Verdict \in {STATUS_OK, STATUS_BUILD_ERROR, STATUS_BUILD_TIMEOUT,
                 STATUS_RUNTIME_ERROR, STATUS_RUNTIME_TIMEOUT,
                 STATUS_CHECK_ERROR}

\* C12 witness: a session returned for a test worker that left no result
C12_Witness == Graded /\ tresult = None /\ "test_thread.start" \in calls

\* C13: a session whose build or test budget expired never ends by raising:
\* a failure of the forced termination is swallowed and the session goes on
\* to return its record.
C13_TerminationSwallowed ==
  (bTimedOut \/ tTimedOut) => pc # "raised"

\* C14: rendezvous. Once build_solution has returned the build thread has
\* ended, once test_solution has returned the test thread has ended, and the
\* unbounded join is only ever entered after the kill.
C14_Rendezvous ==
  /\ pc \in {"build_done", "test_start", "test_join", "test_terminate",
             "test_join2", "test_done", "lint", "teardown", "returned"}
       => bpc \in {"idle", "done", "raised"}
  /\ pc \in {"test_done", "lint", "teardown", "returned"}
       => tpc \in {"idle", "done", "raised"}
  /\ pc \in {"build_join2", "test_join2"}
       => "kill" \in calls /\ container = "exited"

\* C14 witness: test_solution has returned after a budget expiry, a kill and
\* the unbounded join
C14_Witness ==
  pc = "test_done" /\ tTimedOut /\ "kill" \in calls /\ Len(tests) > 0

\* C15: the supervisor never reads a worker's result field while that
\* worker's thread is still running.
C15_NoReadWhileRunning == ~readRunning

\* C16: a vector after whose run command the container was found exited is
\* the last one run; the worker's record, and the record of a graded session,
\* is CHECK_ERROR with tests_passed the number of vectors before it, whatever
\* the exit code and output of the run command.
C16_ExitedIsCheckError ==
  \A i \in 1..Len(log) :
    log[i].status = "exited" =>
      /\ Len(log) = i /\ runs = i
      /\ tpc = "done"
      /\ tresult[1].check_result = STATUS_CHECK_ERROR
      /\ tresult[1].tests_passed = i - 1
      /\ Graded => Verdict = STATUS_CHECK_ERROR /\ result[1].tests_passed = i - 1

\* C16 witness: a graded session whose second run command exited zero in a
\* container that was then found exited
C16_Witness ==
  /\ Graded /\ Len(log) = 2
  /\ log[2].status = "exited" /\ log[2].exit_code = 0

\* C17: when the build worker produced its result within the build budget:
\* after a non-zero exit code the session does not raise, no test thread is
\* ever started, and the record is BUILD_ERROR with the captured build output
\* as message; after a zero exit code no build verdict is given and the test
\* thread is started.
C17_BuildOutcome ==
  (need_to_build /\ compile_result # None) =>
    IF compile_result[1].exit_code # 0
    THEN /\ pc \in {"build_done", "lint", "teardown", "returned"}
         /\ tpc = "idle" /\ "test_thread.start" \notin calls
         /\ pc # "build_done" =>
              /\ Verdict = STATUS_BUILD_ERROR
              /\ \/ result[1].check_message = Decode(compile_result[1].output)
                 \/ DecodeRaises(compile_result[1].output)
    ELSE /\ pc \notin {"build_done", "test_start", "raised"} =>
              "test_thread.start" \in calls
         /\ result # None =>
              Verdict \notin {STATUS_BUILD_ERROR, STATUS_BUILD_TIMEOUT}

\* C19: a graded session reports BUILD_TIMEOUT only if the bounded join of
\* the build thread expired, RUNTIME_TIMEOUT only if the bounded join of the
\* test thread expired, and the container is killed only after such an expiry.
C19_TimeoutOnlyOnExpiry ==
  /\ Graded =>
       /\ Verdict = STATUS_BUILD_TIMEOUT => bTimedOut
       /\ Verdict = STATUS_RUNTIME_TIMEOUT => tTimedOut
  /\ "kill" \in calls => (bTimedOut \/ tTimedOut)

\* C20: every record that check_solution returned has tests_total equal to
\* the number of test vectors.
C20_TotalIsVectorCount ==
  preLint # None => preLint[1].tests_total = Len(tests)

\* C18: termination. Under the scheduling assumptions, where exec_run
\* returns once the container is no longer running, every session eventually
\* returns or raises.
C18_SessionEnds == <>(pc \in {"returned", "raised"})

\* C18 witness: a session returned after a budget expiry, the kill and the
\* unbounded join
C18_Witness ==
  Returned /\ tTimedOut /\ "kill" \in calls /\ Len(tests) > 0

====
